---- MODULE Spec2Model ----
(***************************************************************************)
(* The state synchronisation server of ch_03/server/src/main.rs.           *)
(*                                                                         *)
(* Processes: one connection handler (user_connected) per accepted         *)
(* websocket, one forwarder task per outbound channel                      *)
(* (create_send_channel) and the single broadcast task (update_loop).      *)
(* Shared data: the registry `users`, the state store `states` (both       *)
(* behind a tokio RwLock) and the atomic counter NEXT_USER_ID.             *)
(*                                                                         *)
(* A step of the model is one atomic step of the code: an atomic           *)
(* instruction, one statement that takes a lock, uses it and drops the     *)
(* guard, or one send on an unbounded channel.  The read guards that the   *)
(* code holds across several sends (broadcast, update_loop) are held       *)
(* across several steps of the model.                                      *)
(*                                                                         *)
(* Two further specifications run one component alone: SpecAlloc the id    *)
(* allocator at the width of its counter, SpecClient the client's          *)
(* Game::handle_message of ch_04/game/src/main.rs.                         *)
(***************************************************************************)
EXTENDS Integers, Sequences, FiniteSets, TLC

(***************************************************************************)
(* Bounds of the model.                                                    *)
(***************************************************************************)
\* number of websocket connections the server accepts in a run
MaxConns == 2
\* number of iterations of update_loop in a run
MaxTicks == 2
\* width in bits of the counter NEXT_USER_ID (usize, scaled down)
UsizeBits == 3
\* number of server messages a client handles in a run of SpecClient
MaxMsgs == 3

\* The connections, named in the order in which they call fetch_add.
Conns == 1..MaxConns

\* The values a client reports (State.pos and State.r taken together).
Vals == {"p", "q"}

VARIABLES
    NEXT_USER_ID,   \* the atomic counter (main.rs:132)
    users,          \* registry: id -> outbound channel (main.rs:171)
    states,         \* state store: id -> RemoteState (main.rs:172)
    pc,             \* pc[c]: position of the handler of connection c
    my_id,          \* my_id[c]: the handler's local my_id (0: not yet allocated)
    msg,            \* msg[c]: the frame the read loop received last (main.rs:59)
    chan,           \* chan[c]: the messages enqueued on the channel of c, in order
    rx_open,        \* rx_open[c]: the receiver of the channel is not dropped
    biter,          \* biter[c]: ids that broadcast() of handler c has not visited yet
    upc,            \* position of update_loop
    tick,           \* number of iterations update_loop has begun
    snap,           \* update_loop's local `states` (the snapshot of this tick)
    uiter,          \* ids that the for loop of update_loop has not visited yet
    issued,         \* SpecAlloc: the ids fetch_add has returned, in order, and to whom
    player_id,      \* SpecClient: Game.player_state.id
    remote_states,  \* SpecClient: Game.remote_states
    handled         \* SpecClient: the messages handle_message was called with, in order

vars == <<NEXT_USER_ID, users, states, pc, my_id, msg, chan, rx_open, biter,
          upc, tick, snap, uiter, issued, player_id, remote_states, handled>>

\* what the server's tasks never touch
outside_vars == <<issued, player_id, remote_states, handled>>

(***************************************************************************)
(* Messages.                                                               *)
(***************************************************************************)
\* struct RemoteState
RemoteState(id, v) == [id |-> id, st |-> v]

\* enum ServerMessage.  `tick` is not part of the message: it records which
\* iteration of update_loop built an Update, so that the Updates of one tick
\* can be told from those of another (0 for Welcome and GoodBye).
Welcome(id) == [kind |-> "Welcome", id |-> id, list |-> {}, tick |-> 0]
GoodBye(id) == [kind |-> "GoodBye", id |-> id, list |-> {}, tick |-> 0]
Update(list, t) == [kind |-> "Update", id |-> 0, list |-> list, tick |-> t]

\* enum ClientMessage, and Option::None of parse_message
ClientState(v) == [tag |-> "State", state |-> v]
None == [tag |-> "None", state |-> ""]

\* serde_json::to_vec of a ClientMessage (the client's client_send): the
\* variant name followed by its content.
to_vec(m) == <<m.tag, m.state>>

\* serde_json::from_slice::<ClientMessage>(..).ok(): only the encoding of a
\* ClientMessage::State decodes.
from_slice(bytes) ==
    IF Len(bytes) = 2 /\ bytes[1] = "State" /\ bytes[2] \in Vals
    THEN ClientState(bytes[2])
    ELSE None

\* A websocket frame: binary or text, with its payload.
Frame(binary, body) == [binary |-> binary, body |-> body]
NoFrame == Frame(FALSE, <<>>)

\* The frames a client may send: well-formed reports, a binary frame that
\* holds no ClientMessage, and a text frame that carries a well-formed report.
Frames ==
    {Frame(TRUE, to_vec(ClientState(v))) : v \in Vals}
    \cup {Frame(TRUE, <<"State">>),
          Frame(FALSE, to_vec(ClientState("p")))}

\* parse_message without the is_binary test
parse_message_any_frame(m) ==
    from_slice(m.body)

\* fn parse_message
parse_message(m) ==
    IF m.binary THEN from_slice(m.body) ELSE None

(***************************************************************************)
(* Maps and channels.                                                      *)
(***************************************************************************)
\* HashMap::insert
insert(map, k, v) == [x \in (DOMAIN map) \cup {k} |-> IF x = k THEN v ELSE map[x]]

\* a remove that clears the map
remove_all(map, k) == [x \in {} |-> map[x]]

\* HashMap::remove
remove(map, k) == [x \in (DOMAIN map) \ {k} |-> map[x]]

\* states.values().cloned().collect()
values(map) == {map[k] : k \in DOMAIN map}

\* UnboundedSender::send fails iff the receiver was dropped; send_msg unwraps
\* the result, so a failed send panics the task that called send_msg.
send_fails(c) == ~rx_open[c]

\* send_msg on the channel of connection c, when the send succeeds.
send_msg(c, m) == [chan EXCEPT ![c] = Append(@, m)]

\* the filter_map of update_loop: the snapshot without the recipient's state
filter_map(list, uid) == {s \in list : s.id # uid}

\* an allocation that reads the counter and does not advance it
fetch_add_lost(counter) == counter

\* a fetch_add that advances the counter by two
fetch_add_two(counter) == (counter + 2) % (2 ^ UsizeBits)

\* AtomicUsize::fetch_add(1): the value the counter holds afterwards; the
\* addition wraps around at the width of usize.
fetch_add(counter) == (counter + 1) % (2 ^ UsizeBits)

\* Holders of a read guard of `users`: a write guard is granted only when
\* there is none.
users_read_locked ==
    upc = "send" \/ \E c \in Conns : pc[c] = "bsend"

Init ==
    /\ NEXT_USER_ID = 1
    /\ users = <<>>
    /\ states = <<>>
    /\ pc = [c \in Conns |-> "init"]
    /\ my_id = [c \in Conns |-> 0]
    /\ msg = [c \in Conns |-> NoFrame]
    /\ chan = [c \in Conns |-> <<>>]
    /\ rx_open = [c \in Conns |-> TRUE]
    /\ biter = [c \in Conns |-> {}]
    /\ upc = "snapshot"
    /\ tick = 0
    /\ snap = {}
    /\ uiter = {}
    /\ issued = <<>>
    /\ player_id = 0
    /\ remote_states = <<>>
    /\ handled = <<>>

uloop_vars == <<upc, tick, snap, uiter>>

(***************************************************************************)
(* The connection handler, user_connected.                                 *)
(***************************************************************************)
\* user_connected with the registry insert moved in front of send_welcome
create_send_channel_registered(c) ==
    /\ pc[c] = "init"
    /\ \A d \in Conns : d < c => pc[d] # "init"
    /\ ~users_read_locked
    /\ my_id' = [my_id EXCEPT ![c] = NEXT_USER_ID]
    /\ NEXT_USER_ID' = fetch_add(NEXT_USER_ID)
    /\ users' = insert(users, NEXT_USER_ID, c)
    /\ pc' = [pc EXCEPT ![c] = "welcome"]
    /\ UNCHANGED <<states, msg, chan, rx_open, biter, uloop_vars, outside_vars>>

\* main.rs:50 and :135: the channel is created and the id is allocated.
\* Connections are numbered in the order of their fetch_add.
create_send_channel(c) ==
    /\ pc[c] = "init"
    /\ \A d \in Conns : d < c => pc[d] # "init"
    /\ my_id' = [my_id EXCEPT ![c] = NEXT_USER_ID]
    /\ NEXT_USER_ID' = fetch_add(NEXT_USER_ID)
    /\ pc' = [pc EXCEPT ![c] = "welcome"]
    /\ UNCHANGED <<users, states, msg, chan, rx_open, biter, uloop_vars, outside_vars>>

\* main.rs:137-141: Welcome(id) is sent on the handler's own channel.
send_welcome(c) ==
    /\ pc[c] = "welcome"
    /\ IF send_fails(c)
       THEN /\ pc' = [pc EXCEPT ![c] = "panicked"]
            /\ chan' = chan
       ELSE /\ pc' = [pc EXCEPT ![c] = "insert"]
            /\ chan' = send_msg(c, Welcome(my_id[c]))
    /\ UNCHANGED <<NEXT_USER_ID, users, states, my_id, msg, rx_open, biter,
                   uloop_vars, outside_vars>>

\* a registry insert that does not wait for the read guards to be dropped
users_insert_unlocked(c) ==
    /\ pc[c] = "insert"
    /\ users' = insert(users, my_id[c], c)
    /\ pc' = [pc EXCEPT ![c] = "recv"]
    /\ UNCHANGED <<NEXT_USER_ID, states, my_id, msg, chan, rx_open, biter,
                   uloop_vars, outside_vars>>

\* main.rs:56: users.write().await.insert(my_id, send_channel)
users_insert(c) ==
    /\ pc[c] = "insert"
    /\ ~users_read_locked
    /\ users' = insert(users, my_id[c], c)
    /\ pc' = [pc EXCEPT ![c] = "recv"]
    /\ UNCHANGED <<NEXT_USER_ID, states, my_id, msg, chan, rx_open, biter,
                   uloop_vars, outside_vars>>

\* a user_message that keeps the entry the store already has
user_message_keep(id, m, st) ==
    IF id \in DOMAIN st THEN st ELSE insert(st, id, RemoteState(id, m.state))

\* fn user_message: the report is stored under the connection's id.
user_message(id, m, st) ==
    insert(st, id, RemoteState(id, m.state))

\* a read loop that is entered before the registry insert
recv_frame_before_insert(c) ==
    /\ pc[c] \in {"insert", "recv"}
    /\ \E f \in Frames :
         /\ msg' = [msg EXCEPT ![c] = f]
         /\ states' = IF parse_message(f) # None
                      THEN user_message(my_id[c], parse_message(f), states)
                      ELSE states
    /\ UNCHANGED <<NEXT_USER_ID, users, pc, my_id, chan, rx_open, biter,
                   uloop_vars, outside_vars>>

\* main.rs:58-72, one iteration of the read loop that receives Ok(frame).
recv_frame(c) ==
    /\ pc[c] = "recv"
    /\ \E f \in Frames :
         /\ msg' = [msg EXCEPT ![c] = f]
         /\ states' = IF parse_message(f) # None
                      THEN user_message(my_id[c], parse_message(f), states)
                      ELSE states
    /\ UNCHANGED <<NEXT_USER_ID, users, pc, my_id, chan, rx_open, biter,
                   uloop_vars, outside_vars>>

\* main.rs:58-65: the stream ends (None) or yields Err: the loop is left,
\* and the loop's local `msg` with it.
recv_end(c) ==
    /\ pc[c] = "recv"
    /\ pc' = [pc EXCEPT ![c] = "remove_user"]
    /\ msg' = [msg EXCEPT ![c] = NoFrame]
    /\ UNCHANGED <<NEXT_USER_ID, users, states, my_id, chan, rx_open, biter,
                   uloop_vars, outside_vars>>

\* a cleanup that leaves the id in the registry
users_remove_skipped(c) ==
    /\ pc[c] = "remove_user"
    /\ ~users_read_locked
    /\ pc' = [pc EXCEPT ![c] = "remove_state"]
    /\ UNCHANGED <<NEXT_USER_ID, users, states, my_id, msg, chan, rx_open, biter,
                   uloop_vars, outside_vars>>

\* main.rs:76: users.write().await.remove(&my_id)
users_remove(c) ==
    /\ pc[c] = "remove_user"
    /\ ~users_read_locked
    /\ users' = remove(users, my_id[c])
    /\ pc' = [pc EXCEPT ![c] = "remove_state"]
    /\ UNCHANGED <<NEXT_USER_ID, states, my_id, msg, chan, rx_open, biter,
                   uloop_vars, outside_vars>>

\* a cleanup that leaves the id in the store
states_remove_skipped(c) ==
    /\ pc[c] = "remove_state"
    /\ pc' = [pc EXCEPT ![c] = "broadcast"]
    /\ UNCHANGED <<NEXT_USER_ID, users, states, my_id, msg, chan, rx_open, biter,
                   uloop_vars, outside_vars>>

\* a cleanup that unwraps the Option that HashMap::remove returns
states_remove_unwrap(c) ==
    /\ pc[c] = "remove_state"
    /\ states' = remove(states, my_id[c])
    /\ pc' = [pc EXCEPT ![c] =
                IF my_id[c] \in DOMAIN states THEN "broadcast" ELSE "panicked"]
    /\ UNCHANGED <<NEXT_USER_ID, users, my_id, msg, chan, rx_open, biter,
                   uloop_vars, outside_vars>>

\* main.rs:77: states.write().await.remove(&my_id)
states_remove(c) ==
    /\ pc[c] = "remove_state"
    /\ states' = remove(states, my_id[c])
    /\ pc' = [pc EXCEPT ![c] = "broadcast"]
    /\ UNCHANGED <<NEXT_USER_ID, users, my_id, msg, chan, rx_open, biter,
                   uloop_vars, outside_vars>>

\* main.rs:105: broadcast takes the read guard and starts to iterate.
broadcast_lock(c) ==
    /\ pc[c] = "broadcast"
    /\ biter' = [biter EXCEPT ![c] = DOMAIN users]
    /\ pc' = [pc EXCEPT ![c] = "bsend"]
    /\ UNCHANGED <<NEXT_USER_ID, users, states, my_id, msg, chan, rx_open,
                   uloop_vars, outside_vars>>

\* main.rs:106-108: one iteration of the loop of broadcast (in the order of
\* the HashMap's iterator, which is arbitrary).  A failed send panics the
\* handler; the unwinding drops the read guard.
broadcast_send(c) ==
    /\ pc[c] = "bsend"
    /\ \E uid \in biter[c] :
         IF send_fails(users[uid])
         THEN /\ pc' = [pc EXCEPT ![c] = "panicked"]
              /\ biter' = [biter EXCEPT ![c] = {}]
              /\ chan' = chan
         ELSE /\ pc' = pc
              /\ biter' = [biter EXCEPT ![c] = @ \ {uid}]
              /\ chan' = send_msg(users[uid], GoodBye(my_id[c]))
    /\ UNCHANGED <<NEXT_USER_ID, users, states, my_id, msg, rx_open,
                   uloop_vars, outside_vars>>

\* main.rs:109-80: the iteration is over, the guard is dropped, the handler
\* returns.
broadcast_done(c) ==
    /\ pc[c] = "bsend"
    /\ biter[c] = {}
    /\ pc' = [pc EXCEPT ![c] = "done"]
    /\ UNCHANGED <<NEXT_USER_ID, users, states, my_id, msg, chan, rx_open, biter,
                   uloop_vars, outside_vars>>

(***************************************************************************)
(* The forwarder task of create_send_channel.                              *)
(***************************************************************************)
\* main.rs:123-127: rx.forward(ws_sender) ends with Err when the write of a
\* queued message fails; the receiver is dropped with the finished future.
\* A write that succeeds changes nothing that a sender can observe.
forward_fails(c) ==
    /\ rx_open[c]
    /\ chan[c] # <<>>
    /\ rx_open' = [rx_open EXCEPT ![c] = FALSE]
    /\ UNCHANGED <<NEXT_USER_ID, users, states, pc, my_id, msg, chan, biter,
                   uloop_vars, outside_vars>>

(***************************************************************************)
(* The broadcast task, update_loop.                                        *)
(***************************************************************************)
handler_vars == <<NEXT_USER_ID, states, pc, my_id, msg, rx_open, biter>>

\* a test of the tick that never skips it
is_empty_never(list) == FALSE

\* Vec::is_empty
is_empty(list) == list = {}

\* main.rs:146-148 (and :167): the snapshot of the store and the test of the
\* tick; with an empty snapshot the task sleeps until the next iteration.
update_snapshot ==
    /\ upc = "snapshot"
    /\ tick < MaxTicks
    /\ tick' = tick + 1
    /\ snap' = values(states)
    /\ upc' = IF ~is_empty(values(states)) THEN "lock" ELSE "snapshot"
    /\ UNCHANGED <<users, chan, uiter, handler_vars, outside_vars>>

\* main.rs:149: users.read().await; the guard lives as long as the for loop.
update_lock ==
    /\ upc = "lock"
    /\ uiter' = DOMAIN users
    /\ upc' = "send"
    /\ UNCHANGED <<users, chan, tick, snap, handler_vars, outside_vars>>

\* a for loop that reads the store again for every recipient
update_send_live ==
    /\ upc = "send"
    /\ \E uid \in uiter :
         IF send_fails(users[uid])
         THEN /\ upc' = "panicked"
              /\ uiter' = {}
              /\ chan' = chan
         ELSE /\ upc' = upc
              /\ uiter' = uiter \ {uid}
              /\ chan' = send_msg(users[uid],
                                  Update(filter_map(values(states), uid), tick))
    /\ UNCHANGED <<users, tick, snap, handler_vars, outside_vars>>

\* main.rs:149-164: one iteration of the for loop.  A failed send panics
\* the task: update_loop is over.
update_send ==
    /\ upc = "send"
    /\ \E uid \in uiter :
         IF send_fails(users[uid])
         THEN /\ upc' = "panicked"
              /\ uiter' = {}
              /\ chan' = chan
         ELSE /\ upc' = upc
              /\ uiter' = uiter \ {uid}
              /\ chan' = send_msg(users[uid], Update(filter_map(snap, uid), tick))
    /\ UNCHANGED <<users, tick, snap, handler_vars, outside_vars>>

\* main.rs:164-167: the for loop is over, the read guard is dropped and the
\* task sleeps until the next iteration.
update_unlock ==
    /\ upc = "send"
    /\ uiter = {}
    /\ upc' = "snapshot"
    /\ UNCHANGED <<users, chan, tick, snap, uiter, handler_vars, outside_vars>>

user_connected(c) ==
    \/ create_send_channel(c)
    \/ send_welcome(c)
    \/ users_insert(c)
    \/ recv_frame(c)
    \/ recv_end(c)
    \/ users_remove(c)
    \/ states_remove(c)
    \/ broadcast_lock(c)
    \/ broadcast_send(c)
    \/ broadcast_done(c)

update_loop ==
    \/ update_snapshot
    \/ update_lock
    \/ update_send
    \/ update_unlock

Next ==
    \/ \E c \in Conns : user_connected(c)
    \/ \E c \in Conns : forward_fails(c)
    \/ update_loop

Spec == Init /\ [][Next]_vars

(***************************************************************************)
(* The id allocator alone (SpecAlloc): handlers call fetch_add one after   *)
(* another, more often than the counter has values.                        *)
(***************************************************************************)
\* the tasks that allocate
Procs == {"h1", "h2"}

\* allocations in a run: one more than the counter has values
MaxAllocs == 2 ^ UsizeBits + 1

server_vars == <<users, states, pc, my_id, msg, chan, rx_open, biter, upc, tick, snap,
                 uiter>>

\* main.rs:135: let id = NEXT_USER_ID.fetch_add(1, Ordering::Relaxed)
allocate(p) ==
    /\ Len(issued) < MaxAllocs
    /\ issued' = Append(issued, [proc |-> p, id |-> NEXT_USER_ID])
    /\ NEXT_USER_ID' = fetch_add(NEXT_USER_ID)
    /\ UNCHANGED <<server_vars, player_id, remote_states, handled>>

NextAlloc == \E p \in Procs : allocate(p)

SpecAlloc == Init /\ [][NextAlloc]_vars

(***************************************************************************)
(* The client's Game::handle_message alone (SpecClient): the client        *)
(* handles any sequence of server messages.  On the client the list of an  *)
(* Update is the Vec it was decoded to: a sequence, in which an id may     *)
(* occur more than once.                                                   *)
(***************************************************************************)
\* ids that occur in the messages of SpecClient
ClientIds == {1, 2}

\* the lists an Update may carry: up to two entries
UpdateLists ==
    LET S == {RemoteState(id, v) : id \in ClientIds, v \in Vals}
    IN  {<<>>} \cup {<<a>> : a \in S} \cup {<<a, b>> : a \in S, b \in S}

\* the messages a client may be handed
ServerMessages ==
    {Welcome(id) : id \in ClientIds}
    \cup {GoodBye(id) : id \in ClientIds}
    \cup {Update(l, 0) : l \in UpdateLists}

\* a retain that keeps what it should drop
retain_inverted(list, id) ==
    LET drop(s) == s.id = id IN SelectSeq(list, drop)

\* main.rs:109 of the game: self.remote_states.retain(|s| s.id != id)
retain(list, id) ==
    LET keep(s) == s.id # id IN SelectSeq(list, keep)

\* fn Game::handle_message
handle_message(m) ==
    /\ Len(handled) < MaxMsgs
    /\ handled' = Append(handled, m)
    /\ player_id' = IF m.kind = "Welcome" THEN m.id ELSE player_id
    /\ remote_states' = CASE m.kind = "Welcome" -> remote_states
                          [] m.kind = "GoodBye" -> retain(remote_states, m.id)
                          [] m.kind = "Update"  -> m.list
    /\ UNCHANGED <<NEXT_USER_ID, server_vars, issued>>

NextClient == \E m \in ServerMessages : handle_message(m)

SpecClient == Init /\ [][NextClient]_vars

(***************************************************************************)
(* What the channels have seen.                                            *)
(***************************************************************************)
\* positions of the messages of one kind on the channel of c
Positions(c, kind) == {i \in DOMAIN chan[c] : chan[c][i].kind = kind}

\* positions, on a channel, of the Updates that tick t built
UpdatesOfTick(ch, t) ==
    {i \in DOMAIN ch : ch[i].kind = "Update" /\ ch[i].tick = t}

\* number of GoodBye(id) on a channel
GoodByes(ch, id) == Cardinality({i \in DOMAIN ch : ch[i] = GoodBye(id)})

\* update_loop leaves its for loop in this step (by its end or by a panic)
TickEnds == upc = "send" /\ upc' # "send"

\* the broadcast of handler x leaves its loop in this step
BroadcastEnds(x) == pc[x] = "bsend" /\ pc'[x] # "bsend"

\* a frame that is not binary or does not hold the encoding of a ClientMessage
Malformed(f) ==
    ~f.binary \/ \A v \in Vals : f.body # to_vec(ClientState(v))

\* the read loop of c receives a frame in this step
Receives(c) == pc[c] = "recv" /\ msg'[c] # msg[c] /\ msg'[c] # NoFrame

C2_WelcomeOnceAndFirst ==
    \A c \in Conns :
      /\ Cardinality(Positions(c, "Welcome")) <= 1
      /\ \A i \in Positions(c, "Welcome") : chan[c][i] = Welcome(my_id[c]) /\ my_id[c] # 0
      /\ pc[c] \notin {"init", "welcome"} => Positions(c, "Welcome") = {1}
      /\ \A i \in Positions(c, "Update") :
           \E j \in Positions(c, "Welcome") : j < i

\* a channel that holds its Welcome and then an Update
C2_Witness ==
    \E c \in Conns :
      /\ Len(chan[c]) >= 2
      /\ chan[c][1] = Welcome(my_id[c])
      /\ chan[c][2].kind = "Update"

(***************************************************************************)
(* C8: a frame that is not binary or does not decode is dropped: the       *)
(* store and the registry are unchanged and the read loop goes on; a       *)
(* well-formed State frame (also one that follows a dropped frame) is      *)
(* stored under the id of the connection it came in on.                    *)
(***************************************************************************)
C8_MalformedDropped ==
    [][\A c \in Conns :
         Receives(c) =>
           IF Malformed(msg'[c])
           THEN states' = states /\ users' = users /\ pc'[c] = "recv"
           ELSE /\ my_id[c] \in DOMAIN states'
                /\ to_vec(ClientState(states'[my_id[c]].st)) = msg'[c].body
                /\ states'[my_id[c]].id = my_id[c]
                /\ pc'[c] = "recv"]_vars

\* a registered connection whose read loop has just dropped a binary frame
\* that does not decode, and is still reading
C8_Witness ==
    \E c \in Conns :
      /\ pc[c] = "recv"
      /\ msg[c].binary /\ Malformed(msg[c])
      /\ my_id[c] \in DOMAIN users

(***************************************************************************)
(* C9: a tick whose snapshot is empty enqueues no Update on any channel.   *)
(***************************************************************************)
C9_EmptySnapshotNoUpdate ==
    (tick >= 1 /\ snap = {}) =>
       /\ upc = "snapshot"
       /\ \A c \in Conns : UpdatesOfTick(chan[c], tick) = {}

\* a tick has taken an empty snapshot while a connection was registered that
\* an earlier tick had sent an Update to and that is still reading
C9_Witness ==
    /\ tick >= 1 /\ snap = {}
    /\ \E c \in Conns :
         /\ pc[c] = "recv"
         /\ \E t \in 1..(tick - 1) : UpdatesOfTick(chan[c], t) # {}

(***************************************************************************)
(* C1: when a tick with a non-empty snapshot is over, every connection of  *)
(* the registry (which the read guard kept fixed during the tick) has got  *)
(* exactly one Update of that tick; its list has no entry with the         *)
(* recipient's id and has the snapshot's state of every other id.          *)
(***************************************************************************)
C1_EveryRegisteredGetsUpdate ==
    [][TickEnds =>
         \A uid \in DOMAIN users :
           LET ch == chan'[users[uid]]
           IN  /\ Cardinality(UpdatesOfTick(ch, tick)) = 1
               /\ \A i \in UpdatesOfTick(ch, tick) :
                    /\ \A s \in ch[i].list : s.id # uid
                    /\ \A s \in snap : s.id # uid => s \in ch[i].list]_vars

(***************************************************************************)
(* C5: update_loop never stops: no failure of a connection's forwarder     *)
(* ends the task.                                                          *)
(***************************************************************************)
C5_UpdateLoopKeepsRunning == upc # "panicked"

(***************************************************************************)
(* C6: a send into a channel whose forwarder has stopped is void for the   *)
(* sender: a broadcast of GoodBye(X) runs to its end, and when it is over  *)
(* every registered connection whose channel is live holds GoodBye(X).     *)
(***************************************************************************)
C6_BroadcastIntoDeadChannelCompletes ==
    [][\A x \in Conns :
         BroadcastEnds(x) =>
           /\ pc'[x] = "done"
           /\ \A uid \in DOMAIN users :
                rx_open[users[uid]] => GoodByes(chan'[users[uid]], my_id[x]) >= 1]_vars

(***************************************************************************)
(* C3: when the goodbye broadcast of a disconnected connection X is over,  *)
(* every connection that was registered during it holds exactly one        *)
(* GoodBye(X); and no channel ever holds GoodBye(X) twice.                 *)
(***************************************************************************)
C3_GoodByeExactlyOnce ==
    /\ [][\A x \in Conns :
            BroadcastEnds(x) =>
              \A uid \in DOMAIN users :
                GoodByes(chan'[users[uid]], my_id[x]) = 1]_vars
    /\ [](\A x, b \in Conns : GoodByes(chan[b], my_id[x]) <= 1)

(***************************************************************************)
(* C4: on every channel, no Update that follows GoodBye(X) has an entry    *)
(* with id X.                                                              *)
(***************************************************************************)
C4_NoUpdateOfXAfterGoodBye ==
    \A b \in Conns :
      \A i \in Positions(b, "GoodBye") :
        \A j \in Positions(b, "Update") :
          i < j => \A s \in chan[b][j].list : s.id # chan[b][i].id

(***************************************************************************)
(* C10: when a tick with a non-empty snapshot is over, a registered        *)
(* connection for which the snapshot holds no other id's state has got     *)
(* exactly one Update of that tick, with an empty list; with two           *)
(* registered clients of which only A has reported, B has got the Update   *)
(* that holds A's state.                                                   *)
(***************************************************************************)
C10_EmptyUpdateNotSkipped ==
    [][(TickEnds /\ snap # {}) =>
         \A uid \in DOMAIN users :
           LET ch == chan'[users[uid]]
           IN  /\ (\A s \in snap : s.id = uid) =>
                     /\ Cardinality(UpdatesOfTick(ch, tick)) = 1
                     /\ \A i \in UpdatesOfTick(ch, tick) : ch[i].list = {}
               /\ (\E a \in DOMAIN users : a # uid /\ \A s \in snap : s.id = a) =>
                     \E i \in UpdatesOfTick(ch, tick) : ch[i].list = snap]_vars

(***************************************************************************)
(* C11, as claimed: an id is in the registry if and only if its Welcome    *)
(* has been sent and its handler has not begun to close.                   *)
(***************************************************************************)
C11_RegisteredIffOpenAndWelcomed ==
    \A c \in Conns :
      (my_id[c] # 0 /\ my_id[c] \in DOMAIN users)
        <=> (Positions(c, "Welcome") # {} /\ pc[c] \in {"insert", "recv"})

(***************************************************************************)
(* C11, amended: the registry holds exactly the ids of the handlers that   *)
(* have done their registry insert and not yet their registry remove,      *)
(* each with its own channel; each of them has been sent its Welcome.  (A  *)
(* welcomed handler is not registered until its insert, and a handler      *)
(* that has left its read loop stays registered until its remove.)         *)
(***************************************************************************)
C11_RegisteredBetweenInsertAndRemove ==
    /\ DOMAIN users = {my_id[c] : c \in {d \in Conns : pc[d] \in {"recv", "remove_user"}}}
    /\ \A c \in Conns :
         pc[c] \in {"recv", "remove_user"} =>
           /\ users[my_id[c]] = c
           /\ Positions(c, "Welcome") # {}

\* a handler that has left its read loop and is still registered, while
\* another one is welcomed and not registered yet
C11_Witness ==
    \E c, d \in Conns :
      /\ pc[c] = "remove_user" /\ my_id[c] \in DOMAIN users
      /\ pc[d] = "insert" /\ my_id[d] \notin DOMAIN users

(***************************************************************************)
(* C12: a State report received on connection X overwrites the store's     *)
(* entry of X's id with the report and leaves every other entry as it      *)
(* was; while X reads, the entry of X is the last report received from X.  *)
(***************************************************************************)
C12_ReportOverwritesOwnEntry ==
    /\ [][\A c \in Conns :
            (Receives(c) /\ ~Malformed(msg'[c])) =>
              /\ DOMAIN states' = DOMAIN states \cup {my_id[c]}
              /\ states'[my_id[c]] = RemoteState(my_id[c], msg'[c].body[2])
              /\ \A k \in DOMAIN states : k # my_id[c] => states'[k] = states[k]]_vars
    /\ [](\A c \in Conns :
            (pc[c] = "recv" /\ msg[c] # NoFrame /\ ~Malformed(msg[c])) =>
              /\ my_id[c] \in DOMAIN states
              /\ states[my_id[c]] = RemoteState(my_id[c], msg[c].body[2]))

\* two connections have an entry; one of them has just reported "q" and the
\* other's entry is the "p" it reported
C12_Witness ==
    \E c, d \in Conns :
      /\ c # d
      /\ pc[c] = "recv" /\ msg[c] = Frame(TRUE, to_vec(ClientState("q")))
      /\ my_id[c] \in DOMAIN states /\ states[my_id[c]].st = "q"
      /\ my_id[d] \in DOMAIN states /\ states[my_id[d]].st = "p"

(***************************************************************************)
(* C13: the removal of an absent id leaves the map as it is and raises     *)
(* nothing: the cleanup of a connection that has no entry in the store     *)
(* leaves the store unchanged, has removed the id from the registry, and   *)
(* goes on to the GoodBye broadcast.                                       *)
(***************************************************************************)
C13_RemoveAbsentIsNoOp ==
    [][\A c \in Conns :
         (pc[c] = "remove_state" /\ pc'[c] # pc[c] /\ my_id[c] \notin DOMAIN states) =>
           /\ states' = states
           /\ my_id[c] \notin DOMAIN users'
           /\ pc'[c] = "broadcast"]_vars

\* a connection that never reported has removed itself from the registry
\* and is about to remove its absent id from the store, which is not empty
C13_Witness ==
    \E c \in Conns :
      /\ pc[c] = "remove_state"
      /\ my_id[c] \notin DOMAIN states
      /\ my_id[c] \notin DOMAIN users
      /\ DOMAIN states # {}

(***************************************************************************)
(* C14, as claimed: however many ids are allocated, none is 0 and none     *)
(* has been returned before.                                               *)
(***************************************************************************)
C14_NeverZeroNeverRepeats ==
    \A i \in DOMAIN issued :
      /\ issued[i].id # 0
      /\ \A j \in DOMAIN issued : j # i => issued[j].id # issued[i].id

(***************************************************************************)
(* C14, amended: the first 2^w - 1 allocations (w the width of the         *)
(* counter) return no 0 and no value returned before, each more than the   *)
(* one before it.  (The allocation after them returns 0 and the ones       *)
(* after that repeat: fetch_add wraps around.)                             *)
(***************************************************************************)
C14_DistinctBeforeWrap ==
    \A i \in DOMAIN issued :
      i <= 2 ^ UsizeBits - 1 =>
        /\ issued[i].id # 0
        /\ \A j \in DOMAIN issued : j < i => issued[j].id < issued[i].id

\* every value but 0 has been allocated, by more than one task
C14_Witness ==
    /\ Len(issued) = 2 ^ UsizeBits - 1
    /\ \A p \in Procs : \E i \in DOMAIN issued : issued[i].proc = p

(***************************************************************************)
(* C15: the store holds an entry for an id only while the id's handler is  *)
(* between its registration and the end of its cleanup (so no report is    *)
(* applied before the Welcome and the registry insert); once the handler   *)
(* is past its cleanup, its id is neither in the store nor in the          *)
(* registry.                                                               *)
(***************************************************************************)
C15_EntryOnlyDuringLifetime ==
    /\ \A k \in DOMAIN states :
         \E c \in Conns :
           /\ my_id[c] = k
           /\ pc[c] \in {"recv", "remove_user", "remove_state"}
           /\ Positions(c, "Welcome") # {}
    /\ \A c \in Conns :
         pc[c] \in {"init", "welcome", "insert"} => my_id[c] \notin DOMAIN states
    /\ \A c \in Conns :
         pc[c] \in {"broadcast", "bsend", "done", "panicked"} =>
           /\ my_id[c] \notin DOMAIN states
           /\ my_id[c] \notin DOMAIN users

\* a handler has returned whose state another connection was once sent
C15_Witness ==
    \E c, d \in Conns :
      /\ pc[c] = "done"
      /\ \E i \in Positions(d, "Update") : \E s \in chan[d][i].list : s.id = my_id[c]

(***************************************************************************)
(* C16: when GoodBye(X) is on a channel, X is in neither the registry nor  *)
(* the store, and the channel is not X's own.                              *)
(***************************************************************************)
C16_GoodByeAfterRemoval ==
    \A b, x \in Conns :
      (my_id[x] # 0 /\ GoodByes(chan[b], my_id[x]) >= 1) =>
        /\ b # x
        /\ my_id[x] \notin DOMAIN users
        /\ my_id[x] \notin DOMAIN states

\* a registered connection holds the GoodBye of a connection whose state it
\* was once sent
C16_Witness ==
    \E b, x \in Conns :
      /\ GoodByes(chan[b], my_id[x]) >= 1
      /\ my_id[b] \in DOMAIN users
      /\ \E i \in Positions(b, "Update") : \E s \in chan[b][i].list : s.id = my_id[x]

\* the message a step has enqueued on the channel of c, if it has
Enqueued(c, kinds) ==
    /\ Len(chan'[c]) = Len(chan[c]) + 1
    /\ chan'[c][Len(chan'[c])].kind \in kinds

C18_UpdatesFromOneSnapshot ==
    /\ \A c \in Conns :
         \A i \in UpdatesOfTick(chan[c], tick) :
           chan[c][i].list = {s \in snap : s.id # my_id[c]}
    /\ \A a, b \in Conns :
         \A t \in 1..tick :
           \A i \in UpdatesOfTick(chan[a], t) :
             \A j \in UpdatesOfTick(chan[b], t) :
               {s \in chan[a][i].list : s.id \notin {my_id[a], my_id[b]}}
                 = {s \in chan[b][j].list : s.id \notin {my_id[a], my_id[b]}}

\* the store has changed since the snapshot, one recipient holds its Update
\* of the tick and another is still to be visited
C18_Witness ==
    /\ upc = "send" /\ uiter # {}
    /\ values(states) # snap
    /\ \E c \in Conns : UpdatesOfTick(chan[c], tick) # {}

\* handler x takes a step of its cleanup
CleanupStep(x) ==
    /\ pc[x] \in {"remove_user", "remove_state", "broadcast", "bsend"}
    /\ pc'[x] # pc[x] \/ biter'[x] # biter[x]

(***************************************************************************)
(* C19: a step of the cleanup of X takes at most key X out of the          *)
(* registry and out of the store and leaves every other key with its       *)
(* value; it changes neither the position of another handler nor another   *)
(* channel's receiver, nor anything of update_loop.                        *)
(***************************************************************************)
C19_CleanupTouchesOnlyOwnKey ==
    [][\A x \in Conns :
         CleanupStep(x) =>
           /\ DOMAIN users \ {my_id[x]} \subseteq DOMAIN users'
           /\ DOMAIN users' \subseteq DOMAIN users
           /\ \A k \in DOMAIN users' : users'[k] = users[k]
           /\ DOMAIN states \ {my_id[x]} \subseteq DOMAIN states'
           /\ DOMAIN states' \subseteq DOMAIN states
           /\ \A k \in DOMAIN states' : states'[k] = states[k]
           /\ pc[x] = "remove_user" => my_id[x] \notin DOMAIN users'
           /\ pc[x] = "remove_state" => my_id[x] \notin DOMAIN states'
           /\ \A d \in Conns \ {x} : pc'[d] = pc[d] /\ rx_open'[d] = rx_open[d]
           /\ <<upc, tick, snap, uiter>>' = <<upc, tick, snap, uiter>>]_vars

\* X has returned; another connection holds GoodBye(X), is still registered
\* and reading, and has its entry in the store; update_loop runs
C19_Witness ==
    \E x, d \in Conns :
      /\ pc[x] = "done"
      /\ GoodByes(chan[d], my_id[x]) = 1
      /\ pc[d] = "recv"
      /\ my_id[d] \in DOMAIN users /\ my_id[d] \in DOMAIN states
      /\ upc # "panicked"

(***************************************************************************)
(* The client.                                                             *)
(***************************************************************************)
\* a list without the entries whose id is in ids, in the list's order
RECURSIVE Without(_, _)
Without(list, ids) ==
    IF list = <<>> THEN <<>>
    ELSE (IF Head(list).id \in ids THEN <<>> ELSE <<Head(list)>>)
           \o Without(Tail(list), ids)

\* position in h of the last message of a kind (0: there is none)
LastOf(h, kind) ==
    LET P == {i \in DOMAIN h : h[i].kind = kind}
    IN  IF P = {} THEN 0 ELSE CHOOSE i \in P : \A j \in P : j <= i

\* the list of the last Update in h (the empty Vec of Game::new without one)
LastUpdateList(h) ==
    IF LastOf(h, "Update") = 0 THEN <<>> ELSE h[LastOf(h, "Update")].list

\* the ids of the GoodByes in h after the last Update
GoodByesSince(h) ==
    {h[j].id : j \in {i \in DOMAIN h : i > LastOf(h, "Update") /\ h[i].kind = "GoodBye"}}

(***************************************************************************)
(* C20: handle_message(Welcome(id)) sets the player's id and leaves the    *)
(* remote states; GoodBye(id) drops every remote state with that id and    *)
(* keeps the others in their order; Update(list) makes the list the        *)
(* remote states; neither of the two changes the player's id.  So after    *)
(* any sequence of messages the remote states are the last Update's list   *)
(* without the ids of the GoodByes that came after it.                     *)
(***************************************************************************)
C20_HandleMessage ==
    /\ [][Len(handled') = Len(handled) + 1 =>
            LET m == handled'[Len(handled')]
            IN  CASE m.kind = "Welcome" ->
                       player_id' = m.id /\ remote_states' = remote_states
                  [] m.kind = "GoodBye" ->
                       /\ remote_states' = Without(remote_states, {m.id})
                       /\ player_id' = player_id
                  [] m.kind = "Update" ->
                       remote_states' = m.list /\ player_id' = player_id]_vars
    /\ [](remote_states = Without(LastUpdateList(handled), GoodByesSince(handled)))

\* after an Update with two entries, a GoodBye has dropped one of them
C20_Witness ==
    /\ LastOf(handled, "Update") # 0
    /\ Len(LastUpdateList(handled)) = 2
    /\ GoodByesSince(handled) # {}
    /\ Len(remote_states) = 1

====
